---- MODULE Spec2Model ----
(***************************************************************************)
(* A model of sparse_complex's ComplexMatrix (src/src/lib.rs) and of the   *)
(* vector conversions of src/src/tools.rs.                                 *)
(*                                                                         *)
(* Numbers.  An f64 is modelled by an integer k that stands for the value  *)
(* k * (f64::MIN_POSITIVE / 2): 0 is zero, 1 and -1 are subnormal values   *)
(* (non-zero, of magnitude below MIN_POSITIVE) and every |k| >= 2 is a     *)
(* normal value.  Comparison, equality and negation of such values are     *)
(* those of the integers.  NaN and the infinities are not modelled.        *)
(*                                                                         *)
(* The sparse21 matrix held in the field `primitive` is an external crate: *)
(* it is modelled by the bag of the (row, col, value) elements that        *)
(* ComplexMatrix has added to it, and its solve by a nondeterministic      *)
(* outcome.                                                                *)
(***************************************************************************)
EXTENDS Integers, Sequences, FiniteSets, Bags, TLC

VARIABLES
    m,        \* the ComplexMatrix under test: [primitive, entries, builded, order]
    a,        \* a second ComplexMatrix, compared with m
    op,       \* the last call made, <<name, arguments...>>
    ret,      \* what the last call returned
    native,   \* what the last call handed to primitive.solve, or NoCall
    builds    \* history: how many times build_primitive has written into m.primitive

vars == <<m, a, op, ret, native, builds>>

----------------------------------------------------------------------------
(* Bounds of the model *)

\* rows and columns range over 0..MaxIdx
MaxIdx == 1
\* a matrix holds at most MaxEntries triplets
MaxEntries == 2
\* a right-hand side, and a vector handed to tools.rs, has at most MaxLen elements
MaxLen == 2
\* build_primitive runs at most MaxBuilds times on one matrix
MaxBuilds == 2

\* std::f64::MIN_POSITIVE, in the unit MIN_POSITIVE / 2
MIN_POS_VALUE == 2
\* the f64 1.0 of ComplexMatrix::default: a normal value
ONE == 2

Idx == 0 .. MaxIdx

\* The complex values (real, imag) the calls are made with: zero, a real value,
\* and a value with a subnormal real part and a negative imaginary part.
Values == {<<0, 0>>, <<2, 0>>, <<1, -2>>}

\* type Entry = (usize, usize, (f64, f64))
Entry == Idx \X Idx \X Values

SeqsUpTo(S, n) == UNION {[1 .. k -> S] : k \in 0 .. n}

\* Option and Result values
None == <<"None">>
Some(v) == <<"Some", v>>
Ok(v) == <<"Ok", v>>
Err(msg) == <<"Err", msg>>
\* no call was made to primitive.solve
NoCall == [called |-> FALSE, matrix |-> EmptyBag, rhs |-> <<>>]

----------------------------------------------------------------------------
(* src/src/tools.rs *)

RECURSIVE unzip_real(_)
unzip_real(complex) ==
    IF complex = <<>> THEN <<>>
    ELSE <<Head(complex)[1]>> \o unzip_real(Tail(complex))

RECURSIVE unzip_imag(_)
unzip_imag(complex) ==
    IF complex = <<>> THEN <<>>
    ELSE <<Head(complex)[2]>> \o unzip_imag(Tail(complex))

\* the pairs laid out one after the other: real, imag, real, imag, ...
RECURSIVE complex_to_primitive_interleaved(_)
complex_to_primitive_interleaved(complex) ==
    IF complex = <<>> THEN <<>>
    ELSE <<Head(complex)[1], Head(complex)[2]>>
             \o complex_to_primitive_interleaved(Tail(complex))

\* [real, imag].concat()
complex_to_primitive(complex) == unzip_real(complex) \o unzip_imag(complex)

\* primitive_to_complex without the test of the length: zip stops at the
\* shorter side, so the last element of an odd vector is dropped
primitive_to_complex_truncating(primitive) ==
    LET len == Len(primitive)
        half == len \div 2
        taken == SubSeq(primitive, 1, half)
        skipped == SubSeq(primitive, half + 1, len)
    IN  Ok([i \in 1 .. half |-> <<taken[i], skipped[i]>>])

\* take(len / 2) zipped with skip(len / 2)
primitive_to_complex(primitive) ==
    LET len == Len(primitive)
        half == len \div 2
        taken == SubSeq(primitive, 1, half)
        skipped == SubSeq(primitive, half + 1, len)
    IN  IF len % 2 # 0 THEN Err("Lenght error")
        ELSE Ok([i \in 1 .. half |-> <<taken[i], skipped[i]>>])

----------------------------------------------------------------------------
(* src/src/lib.rs: ComplexMatrix *)

\* sparse21's Matrix::new()
primitive_new == EmptyBag

\* sparse21's Matrix::add_element(row, col, val): one more element
primitive_add_element(primitive, row, col, val) ==
    primitive (+) SetToBag({<<row, col, val>>})

new == [primitive |-> primitive_new, entries |-> <<>>, builded |-> FALSE, order |-> 0]

\* set_in_primitive with the real part missing from the lower right block
set_in_primitive_no_lower_real(self, entry) ==
    LET row == entry[1]
        col == entry[2]
        real == entry[3][1]
        imag == entry[3][2]
        p0 == self.primitive
        p1 == IF real >= MIN_POS_VALUE \/ real <= -MIN_POS_VALUE
              THEN primitive_add_element(p0, row, col, real)
              ELSE p0
        p2 == IF imag >= MIN_POS_VALUE \/ imag <= -MIN_POS_VALUE
              THEN primitive_add_element(
                       primitive_add_element(p1, row, col + self.order, -imag),
                       row + self.order, col, imag)
              ELSE p1
    IN  [self EXCEPT !.primitive = p2]

\* set_in_primitive with the signs of the two coupling blocks exchanged
set_in_primitive_swapped_sign(self, entry) ==
    LET row == entry[1]
        col == entry[2]
        real == entry[3][1]
        imag == entry[3][2]
        p0 == self.primitive
        p1 == IF real >= MIN_POS_VALUE \/ real <= -MIN_POS_VALUE
              THEN primitive_add_element(
                       primitive_add_element(p0, row, col, real),
                       row + self.order, col + self.order, real)
              ELSE p0
        p2 == IF imag >= MIN_POS_VALUE \/ imag <= -MIN_POS_VALUE
              THEN primitive_add_element(
                       primitive_add_element(p1, row, col + self.order, imag),
                       row + self.order, col, -imag)
              ELSE p1
    IN  [self EXCEPT !.primitive = p2]

set_in_primitive(self, entry) ==
    LET row == entry[1]
        col == entry[2]
        real == entry[3][1]
        imag == entry[3][2]
        p0 == self.primitive
        p1 == IF real >= MIN_POS_VALUE \/ real <= -MIN_POS_VALUE
              THEN primitive_add_element(
                       primitive_add_element(p0, row, col, real),
                       row + self.order, col + self.order, real)
              ELSE p0
        p2 == IF imag >= MIN_POS_VALUE \/ imag <= -MIN_POS_VALUE
              THEN primitive_add_element(
                       primitive_add_element(p1, row, col + self.order, -imag),
                       row + self.order, col, imag)
              ELSE p1
    IN  [self EXCEPT !.primitive = p2]

\* one pass of the loop of set_order over the entries left
RECURSIVE set_order_loop(_, _)
set_order_loop(order0, entries) ==
    IF entries = <<>> THEN order0
    ELSE LET row_m == Head(entries)[1]
             col_m == Head(entries)[2]
             o1 == IF row_m + 1 > order0 THEN row_m + 1 ELSE order0
             o2 == IF col_m + 1 > o1 THEN col_m + 1 ELSE o1
         IN  set_order_loop(o2, Tail(entries))

set_order(self) == [self EXCEPT !.order = set_order_loop(self.order, self.entries)]

\* the loop of build_primitive over a clone of the entries
RECURSIVE build_loop(_, _)
build_loop(self, entries) ==
    IF entries = <<>> THEN self
    ELSE build_loop(set_in_primitive(self, Head(entries)), Tail(entries))

build_primitive(self) ==
    LET s1 == set_order(self)
        s2 == build_loop(s1, s1.entries)
    IN  [s2 EXCEPT !.builded = TRUE]

from_entries(entries) ==
    build_primitive([primitive |-> primitive_new, entries |-> entries,
                     builded |-> FALSE, order |-> 0])

\* add_element without the invalidation of the built matrix
add_element_keeps_builded(self, row, col, value) ==
    IF value # <<0, 0>>
    THEN [self EXCEPT
            !.entries = Append(SelectSeq(self.entries,
                                         LAMBDA entry : entry # <<row, col, value>>),
                               <<row, col, value>>)]
    ELSE self

\* add_element without the test for zero
add_element_stores_zero(self, row, col, value) ==
    [self EXCEPT
        !.entries = Append(SelectSeq(self.entries,
                                     LAMBDA entry : entry # <<row, col, value>>),
                           <<row, col, value>>),
        !.builded = FALSE]

add_element(self, row, col, value) ==
    IF value # <<0, 0>>
    THEN [self EXCEPT
            !.entries = Append(SelectSeq(self.entries,
                                         LAMBDA entry : entry # <<row, col, value>>),
                               <<row, col, value>>),
            !.builded = FALSE]
    ELSE self

RECURSIVE add_elements(_, _)
add_elements(self, entries) ==
    IF entries = <<>> THEN self
    ELSE LET e == Head(entries)
         IN  add_elements(add_element(self, e[1], e[2], e[3]), Tail(entries))

get(self, row, col) ==
    LET option == SelectSeq(self.entries,
                            LAMBDA e : e[1] = row /\ e[2] = col)
    IN  IF option = <<>> THEN None ELSE Some(option[1][3])

\* order(&mut self): the matrix after the call and the value returned
order(self) ==
    IF self.builded
    THEN [self |-> self, ret |-> self.order]
    ELSE LET s == build_primitive(self)
         IN  [self |-> s, ret |-> s.order]

clone(self) == from_entries(self.entries)

eq(self, other) == self.entries = other.entries

default == from_entries(<< <<0, 0, <<ONE, 0>>>>, <<1, 1, <<ONE, 0>>>> >>)

\* What sparse21's Matrix::solve may answer for a right-hand side: an error, or
\* a vector of the length of the right-hand side.
primitive_solve(primitive, rhs) ==
    {Err("sparse21"), Ok([i \in 1 .. Len(rhs) |-> 0])}

\* solve(&mut self, b): the matrix after the call, the call made to
\* primitive.solve, and the results solve may return
solve(self, b) ==
    LET s == IF ~self.builded THEN build_primitive(self) ELSE self
        b_primitive == complex_to_primitive(b)
    IN  [self |-> s,
         native |-> [called |-> TRUE, matrix |-> s.primitive, rhs |-> b_primitive],
         rets |-> {IF r[1] = "Err" THEN r ELSE primitive_to_complex(r[2]) :
                      r \in primitive_solve(s.primitive, b_primitive)}]

----------------------------------------------------------------------------
(* The calls made on the matrix m *)

\* the right-hand sides solve is called with
BValues == {<<2, -2>>}

\* The matrix m is constructed by new(), default() or from_entries(entries).
Init ==
    /\ \/ m = new /\ op = <<"new">> /\ builds = 0
       \/ m = default /\ op = <<"default">> /\ builds = 1
       \/ \E entries \in SeqsUpTo(Entry, MaxEntries) :
              m = from_entries(entries) /\ op = <<"from_entries">> /\ builds = 1
    /\ a = new
    /\ ret = None
    /\ native = NoCall

\* m is replaced by its clone
Clone ==
    /\ m' = clone(m)
    /\ builds' = 1
    /\ op' = <<"clone">>
    /\ ret' = None
    /\ native' = NoCall
    /\ UNCHANGED a

AddElement ==
    /\ Len(m.entries) < MaxEntries
    /\ builds < MaxBuilds
    /\ \E row \in Idx, col \in Idx, value \in Values :
        /\ m' = add_element(m, row, col, value)
        /\ op' = <<"add_element", row, col, value>>
        /\ ret' = None
        /\ native' = NoCall
        /\ UNCHANGED <<a, builds>>

AddElements ==
    /\ builds < MaxBuilds
    /\ \E entries \in SeqsUpTo(Entry, MaxEntries - Len(m.entries)) :
        /\ m' = add_elements(m, entries)
        /\ op' = <<"add_elements">>
        /\ ret' = None
        /\ native' = NoCall
        /\ UNCHANGED <<a, builds>>

Order ==
    /\ \E r \in {order(m)} : m' = r.self /\ ret' = r.ret
    /\ builds' = IF m.builded THEN builds ELSE builds + 1
    /\ op' = <<"order">>
    /\ native' = NoCall
    /\ UNCHANGED a

Solve ==
    \E b \in SeqsUpTo(BValues, MaxLen) : \E r \in {solve(m, b)} :
        /\ m' = r.self
        /\ native' = r.native
        /\ ret' \in r.rets
        /\ builds' = IF m.builded THEN builds ELSE builds + 1
        /\ op' = <<"solve", b>>
        /\ UNCHANGED a

Next ==
    \/ Clone
    \/ AddElement
    \/ AddElements
    \/ Order
    \/ Solve

Spec == Init /\ [][Next]_vars

----------------------------------------------------------------------------
(* Properties of the calls on m, checked under Spec *)

Max(S) == CHOOSE x \in S : \A y \in S : y <= x

\* 1 + max(row, col) over the triplets, 0 when there is none
OrderOf(entries) ==
    IF entries = <<>> THEN 0
    ELSE 1 + Max({entries[i][1] : i \in 1 .. Len(entries)}
                 \cup {entries[i][2] : i \in 1 .. Len(entries)})

\* how many triplets are stored at (row, col)
CountAt(entries, row, col) ==
    Cardinality({i \in 1 .. Len(entries) : entries[i][1] = row /\ entries[i][2] = col})

\* C1: last write wins. After add_element(r, c, v) with v non-zero, get(r, c)
\* returns v and exactly one triplet is stored at (r, c).
\* (Stated of the calls made on a matrix that holds no zero and at most one
\* triplet per coordinate.)
C1_LastWriteWins ==
    [][(/\ op'[1] = "add_element"
        /\ op'[4] # <<0, 0>>
        /\ \A i \in 1 .. Len(m.entries) :
              /\ m.entries[i][3] # <<0, 0>>
              /\ CountAt(m.entries, m.entries[i][1], m.entries[i][2]) = 1)
          => /\ get(m', op'[2], op'[3]) = Some(op'[4])
             /\ CountAt(m'.entries, op'[2], op'[3]) = 1]_vars

\* C2: a solve whose right-hand side has a length other than order() returns
\* an error and makes no call to primitive.solve.
C2_DimensionMismatch ==
    (op[1] = "solve" /\ Len(op[2]) # order(m).ret)
        => /\ ~native.called
           /\ ret[1] = "Err"

\* C3: order() returns 1 + max(row, col) over the triplets stored when it is
\* called, and 0 when none is stored.
C3_OrderIsCurrent ==
    op[1] = "order" => ret = OrderOf(m.entries)

\* order() returned 2 for a matrix whose primitive was first built at order 1:
\* the element (1, 1) comes from the triplet at (0, 0) placed with order 1
C3_Witness ==
    /\ op[1] = "order"
    /\ ret = 2
    /\ builds = 2
    /\ get(m, 1, 1) = None
    /\ \E p \in BagToSet(m.primitive) : p[1] = 1 /\ p[2] = 1

\* C6: add_element(r, c, (0, 0)) leaves the triplets, their number, get at
\* every coordinate, the result of order() and the built flag as they were.
C6_ZeroIsNoOp ==
    [][(op'[1] = "add_element" /\ op'[4] = <<0, 0>>)
          => /\ m'.entries = m.entries
             /\ Len(m'.entries) = Len(m.entries)
             /\ \A row \in Idx, col \in Idx : get(m', row, col) = get(m, row, col)
             /\ order(m').ret = order(m).ret
             /\ m'.builded = m.builded]_vars

\* add_element(r, c, (0, 0)) was called on a built matrix that holds triplets
C6_Witness ==
    /\ op[1] = "add_element"
    /\ op[4] = <<0, 0>>
    /\ m.builded
    /\ m.entries # <<>>

\* C9: the matrix solve hands to primitive.solve is the augmentation of the
\* triplets now stored, the one a fresh from_entries of them builds.
C9_NativeGetsFreshAugmentation ==
    op[1] = "solve" => native.matrix = from_entries(m.entries).primitive

\* C10: no stored triplet has the value (0, 0).
C10_NoStoredZero ==
    \A i \in 1 .. Len(m.entries) : m.entries[i][3] # <<0, 0>>

----------------------------------------------------------------------------
(* Two matrices filled by add_element and compared: SpecEq *)

InitEq ==
    /\ m = new
    /\ a = new
    /\ op = <<"new">>
    /\ ret = None
    /\ native = NoCall
    /\ builds = 0

EqAddElementM ==
    /\ Len(m.entries) < MaxEntries
    /\ \E row \in Idx, col \in Idx, value \in Values :
        /\ m' = add_element(m, row, col, value)
        /\ UNCHANGED <<a, op, ret, native, builds>>

EqAddElementA ==
    /\ Len(a.entries) < MaxEntries
    /\ \E row \in Idx, col \in Idx, value \in Values :
        /\ a' = add_element(a, row, col, value)
        /\ UNCHANGED <<m, op, ret, native, builds>>

NextEq ==
    \/ EqAddElementM
    \/ EqAddElementA

SpecEq == InitEq /\ [][NextEq]_vars

\* the set of the triplets stored
TripletSet(self) == {self.entries[i] : i \in 1 .. Len(self.entries)}

\* C7: two matrices compare equal exactly when their sets of stored triplets
\* are equal, whatever the order in which the triplets were added.
C7_EqIsSetEquality ==
    eq(a, m) <=> (TripletSet(a) = TripletSet(m))

----------------------------------------------------------------------------
(* The conversions of tools.rs applied to drawn vectors: SpecTools *)

\* the complex numbers and the reals the vectors are made of
ToolValues == {<<1, -1>>, <<-2, 2>>, <<3, -3>>, <<0, 0>>}
ToolReals == {-1, 2, 3}

InitTools ==
    /\ \/ \E complex \in SeqsUpTo(ToolValues, MaxLen) : op = <<"complex", complex>>
       \/ \E primitive \in SeqsUpTo(ToolReals, 2 * MaxLen + 1) :
              op = <<"primitive", primitive>>
    /\ ret = None
    /\ m = new
    /\ a = new
    /\ native = NoCall
    /\ builds = 0

ComplexToPrimitive ==
    /\ op[1] = "complex"
    /\ op' = <<"complex_to_primitive", op[2]>>
    /\ ret' = complex_to_primitive(op[2])
    /\ UNCHANGED <<m, a, native, builds>>

PrimitiveToComplex ==
    /\ op[1] = "primitive"
    /\ op' = <<"primitive_to_complex", op[2]>>
    /\ ret' = primitive_to_complex(op[2])
    /\ UNCHANGED <<m, a, native, builds>>

\* primitive_to_complex(complex_to_primitive(b)), as solve chains them
RoundTrip ==
    /\ op[1] = "complex"
    /\ op' = <<"round_trip", op[2]>>
    /\ ret' = primitive_to_complex(complex_to_primitive(op[2]))
    /\ UNCHANGED <<m, a, native, builds>>

NextTools ==
    \/ ComplexToPrimitive
    \/ PrimitiveToComplex
    \/ RoundTrip

SpecTools == InitTools /\ [][NextTools]_vars

\* C8: primitive_to_complex(complex_to_primitive(b)) succeeds and returns b,
\* and complex_to_primitive(b) is the real parts of b in order followed by its
\* imaginary parts in order.
C8_RoundTrip ==
    /\ op[1] = "round_trip" => ret = Ok(op[2])
    /\ op[1] = "complex_to_primitive"
          => LET n == Len(op[2])
             IN  /\ Len(ret) = 2 * n
                 /\ \A i \in 1 .. n : ret[i] = op[2][i][1] /\ ret[n + i] = op[2][i][2]

\* a vector of two different numbers went through the round trip
C8_Witness ==
    /\ op[1] = "round_trip"
    /\ Len(op[2]) = 2
    /\ op[2][1] # op[2][2]
    /\ ret = Ok(op[2])

\* C11: primitive_to_complex returns an error for every vector of odd length,
\* and for every vector of even length 2n returns Ok of exactly n pairs, the
\* i-th pair being (element i, element i + n) of the vector.
C11_FoldBack ==
    op[1] = "primitive_to_complex"
       => LET len == Len(op[2])
              n == len \div 2
          IN  IF len % 2 = 1
              THEN ret[1] = "Err"
              ELSE /\ ret[1] = "Ok"
                   /\ Len(ret[2]) = n
                   /\ \A i \in 1 .. n : ret[2][i] = <<op[2][i], op[2][i + n]>>

\* a vector of three elements, not all the same, was refused
C11_Witness ==
    /\ op[1] = "primitive_to_complex"
    /\ Len(op[2]) = 3
    /\ op[2][1] # op[2][3]
    /\ ret = Err("Lenght error")

----------------------------------------------------------------------------
(* The first build of the real matrix: SpecAug *)

\* The values of the triplets: zero, values with a zero component, components
\* of both signs, and a value with a subnormal real part.
AugValues == {<<0, 0>>, <<2, 0>>, <<0, -2>>, <<-2, 3>>, <<1, 2>>}

\* the unknowns x of the systems A x = b
XValues == {<<1, 0>>, <<0, 1>>, <<-1, 2>>}

\* The matrix is constructed by new() or by from_entries(entries).
InitAug ==
    /\ \/ m = new /\ op = <<"new">> /\ builds = 0
       \/ \E entries \in SeqsUpTo(Idx \X Idx \X AugValues, MaxEntries) :
              m = from_entries(entries) /\ op = <<"from_entries">> /\ builds = 1
    /\ a = new
    /\ ret = None
    /\ native = NoCall

\* add_element on a matrix that was never built
AugAddElement ==
    /\ builds = 0
    /\ Len(m.entries) < MaxEntries
    /\ \E row \in Idx, col \in Idx, value \in AugValues :
        /\ m' = add_element(m, row, col, value)
        /\ op' = <<"add_element", row, col, value>>
        /\ ret' = None
        /\ native' = NoCall
        /\ UNCHANGED <<a, builds>>

\* order() on a matrix that was never built: the first build
AugOrder ==
    /\ builds = 0
    /\ \E r \in {order(m)} : m' = r.self /\ ret' = r.ret
    /\ builds' = 1
    /\ op' = <<"order">>
    /\ native' = NoCall
    /\ UNCHANGED a

NextAug ==
    \/ AugAddElement
    \/ AugOrder

SpecAug == InitAug /\ [][NextAug]_vars

\* a component set_in_primitive emits: its magnitude is at least MIN_POSITIVE
Emitted(x) == x >= MIN_POS_VALUE \/ x <= -MIN_POS_VALUE

\* The real matrix P holds, for the triplets `entries` of a matrix of order n,
\* the sub-entries of the components that IsEmitted picks, and nothing else.
Placement(P, entries, n, IsEmitted(_)) ==
    /\ \A i \in 1 .. Len(entries) :
          LET row == entries[i][1]
              col == entries[i][2]
              re == entries[i][3][1]
              im == entries[i][3][2]
          IN  /\ IsEmitted(re) => /\ <<row, col, re>> \in P
                                  /\ <<row + n, col + n, re>> \in P
              /\ IsEmitted(im) => /\ <<row, col + n, -im>> \in P
                                  /\ <<row + n, col, im>> \in P
    /\ \A p \in P :
          \E i \in 1 .. Len(entries) :
              LET row == entries[i][1]
                  col == entries[i][2]
                  re == entries[i][3][1]
                  im == entries[i][3][2]
              IN  \/ IsEmitted(re) /\ p \in {<<row, col, re>>, <<row + n, col + n, re>>}
                  \/ IsEmitted(im) /\ p \in {<<row, col + n, -im>>, <<row + n, col, im>>}

NonZero(x) == x # 0

RECURSIVE Sum(_, _)
Sum(f, S) ==
    IF S = {} THEN 0
    ELSE LET x == CHOOSE y \in S : TRUE
         IN  f[x] + Sum(f, S \ {x})

\* A x for the complex matrix of the triplets `entries` of order n and the
\* complex vector x: (a + jb)(x + jy) = (ax - by) + j(bx + ay)
MulComplex(entries, n, x) ==
    [r \in 1 .. n |->
        LET I == {i \in 1 .. Len(entries) : entries[i][1] = r - 1}
            re == [i \in I |-> entries[i][3][1] * x[entries[i][2] + 1][1]
                                 - entries[i][3][2] * x[entries[i][2] + 1][2]]
            im == [i \in I |-> entries[i][3][2] * x[entries[i][2] + 1][1]
                                 + entries[i][3][1] * x[entries[i][2] + 1][2]]
        IN  <<Sum(re, I), Sum(im, I)>>]

\* A' x' for the real matrix of the elements of the bag P, of dimension d
MulReal(P, d, x) ==
    [r \in 1 .. d |->
        LET E == {p \in BagToSet(P) : p[1] = r - 1}
            t == [p \in E |-> CopiesIn(p, P) * p[3] * x[p[2] + 1]]
        IN  Sum(t, E)]

\* the triplets hold one value per coordinate, of normal or zero components
\* (as every integer is)
OnePerCoordinateNormal(entries) ==
    \A i \in 1 .. Len(entries) :
        /\ CountAt(entries, entries[i][1], entries[i][2]) = 1
        /\ \A k \in 1 .. 2 : entries[i][3][k] = 0 \/ Emitted(entries[i][3][k])

\* C5: for a matrix A of order n with one triplet per coordinate, A x = b
\* holds exactly when A' x' = b' holds, A' being the real matrix of the first
\* build and x', b' the real expansions of x and b.
C5_AugmentedSystemEquivalent ==
    (builds = 1 /\ m.builded /\ OnePerCoordinateNormal(m.entries))
        => LET n == m.order
           IN  \A x \in [1 .. n -> XValues] :
                 LET Ax == MulComplex(m.entries, n, x)
                     Apxp == MulReal(m.primitive, 2 * n, complex_to_primitive(x))
                 IN  \A b \in {Ax, x, [i \in 1 .. n |-> <<0, 0>>]} :
                        (Ax = b) <=> (Apxp = complex_to_primitive(b))

\* a first build of an order 2 matrix with an off-diagonal triplet of
\* non-zero real and imaginary parts
C5_Witness ==
    /\ builds = 1
    /\ m.builded
    /\ OnePerCoordinateNormal(m.entries)
    /\ m.order = 2
    /\ Len(m.entries) = 2
    /\ \E i \in 1 .. 2 : m.entries[i] = <<0, 1, <<-2, 3>>>>

====
